---- MODULE Spec2Model ----
(***************************************************************************)
(* State-machine model of the DataQuark stock analysis API:                *)
(*   app/main.py                    the two stock endpoints                *)
(*   app/services/stock_service.py  StockService: report cache, lru_cache  *)
(*                                  of the primary lookup, section fetches *)
(*   app/core/config.py             CACHE_TTL, MAX_CACHE_SIZE              *)
(* Time is counted in whole seconds.  The data provider (akshare) is the   *)
(* environment: every call to it returns one of the outcomes listed in the *)
(* *Outcomes sets, chosen nondeterministically.                            *)
(***************************************************************************)
EXTENDS Integers, Sequences, FiniteSets, TLC

VARIABLES
    now,               \* the wall clock, datetime.now(), in seconds
    cache,             \* StockService._cache: code -> (report, cache_time)
    cache_order,       \* the keys of _cache in the order the dict holds them
    last_clear_cache,  \* StockService._last_clear_cache
    info_cache,        \* the lru_cache of _get_stock_info, least recent first
    req,               \* the full-report calls suspended at their await
    resp,              \* the HTTP response sent by the step just taken
    faults             \* the section-fetch provider calls that have raised
                       \* or returned nothing to use

vars ==
    <<now, cache, cache_order, last_clear_cache, info_cache, req, resp, faults>>

----------------------------------------------------------------------------
(* Settings and bounds *)

\* settings.CACHE_TTL, seconds.
CACHE_TTL == 300

\* settings.MAX_CACHE_SIZE (default 1000, read from the environment): the
\* service is run here with a small size so that a full cache is reached.
MAX_CACHE_SIZE == 2

\* timedelta.seconds is the seconds part of a duration, 0 .. 86399.
SecondsPerDay == 86400

\* The clock advances by ShortStep or by a whole day, MaxTicks times at most.
ShortStep == 200
MaxTicks == 2

\* The provider calls of the section fetches raise, or return nothing to
\* use, MaxFaults times at most.
MaxFaults == 1

\* Between two readings of the clock in one step of a call the clock may
\* move on by ClockStep; it does so MaxGaps times at most.
ClockStep == 1
MaxGaps == 1

\* The slots of the requests that may be in flight at once.
Reqs == {1, 2}

----------------------------------------------------------------------------
(* Query strings *)

\* A character is a string; a character outside ASCII is written by its code
\* point.

\* The characters 0 .. 9.
AsciiDigits == {"0", "1", "2", "3", "4", "5", "6", "7", "8", "9"}

\* The decimal digits of Unicode (category Nd) other than 0 .. 9, ten for
\* each script: Arabic-Indic U+0660 .. U+0669, Devanagari U+0966 .. U+096F,
\* ..., fullwidth U+FF10 .. U+FF19, ...
OtherDecimalDigits ==
    {"U+0660", "U+0661", "U+0662", "U+0663", "U+0664", "U+0665",
     "U+0666", "U+0667", "U+0668", "U+0669", "U+06F0", "U+06F1",
     "U+06F2", "U+06F3", "U+06F4", "U+06F5", "U+06F6", "U+06F7",
     "U+06F8", "U+06F9", "U+07C0", "U+07C1", "U+07C2", "U+07C3",
     "U+07C4", "U+07C5", "U+07C6", "U+07C7", "U+07C8", "U+07C9",
     "U+0966", "U+0967", "U+0968", "U+0969", "U+096A", "U+096B",
     "U+096C", "U+096D", "U+096E", "U+096F", "U+09E6", "U+09E7",
     "U+09E8", "U+09E9", "U+09EA", "U+09EB", "U+09EC", "U+09ED",
     "U+09EE", "U+09EF", "U+0A66", "U+0A67", "U+0A68", "U+0A69",
     "U+0A6A", "U+0A6B", "U+0A6C", "U+0A6D", "U+0A6E", "U+0A6F",
     "U+0AE6", "U+0AE7", "U+0AE8", "U+0AE9", "U+0AEA", "U+0AEB",
     "U+0AEC", "U+0AED", "U+0AEE", "U+0AEF", "U+0B66", "U+0B67",
     "U+0B68", "U+0B69", "U+0B6A", "U+0B6B", "U+0B6C", "U+0B6D",
     "U+0B6E", "U+0B6F", "U+0BE6", "U+0BE7", "U+0BE8", "U+0BE9",
     "U+0BEA", "U+0BEB", "U+0BEC", "U+0BED", "U+0BEE", "U+0BEF",
     "U+0C66", "U+0C67", "U+0C68", "U+0C69", "U+0C6A", "U+0C6B",
     "U+0C6C", "U+0C6D", "U+0C6E", "U+0C6F", "U+0CE6", "U+0CE7",
     "U+0CE8", "U+0CE9", "U+0CEA", "U+0CEB", "U+0CEC", "U+0CED",
     "U+0CEE", "U+0CEF", "U+0D66", "U+0D67", "U+0D68", "U+0D69",
     "U+0D6A", "U+0D6B", "U+0D6C", "U+0D6D", "U+0D6E", "U+0D6F",
     "U+0DE6", "U+0DE7", "U+0DE8", "U+0DE9", "U+0DEA", "U+0DEB",
     "U+0DEC", "U+0DED", "U+0DEE", "U+0DEF", "U+0E50", "U+0E51",
     "U+0E52", "U+0E53", "U+0E54", "U+0E55", "U+0E56", "U+0E57",
     "U+0E58", "U+0E59", "U+0ED0", "U+0ED1", "U+0ED2", "U+0ED3",
     "U+0ED4", "U+0ED5", "U+0ED6", "U+0ED7", "U+0ED8", "U+0ED9",
     "U+0F20", "U+0F21", "U+0F22", "U+0F23", "U+0F24", "U+0F25",
     "U+0F26", "U+0F27", "U+0F28", "U+0F29", "U+1040", "U+1041",
     "U+1042", "U+1043", "U+1044", "U+1045", "U+1046", "U+1047",
     "U+1048", "U+1049", "U+1090", "U+1091", "U+1092", "U+1093",
     "U+1094", "U+1095", "U+1096", "U+1097", "U+1098", "U+1099",
     "U+17E0", "U+17E1", "U+17E2", "U+17E3", "U+17E4", "U+17E5",
     "U+17E6", "U+17E7", "U+17E8", "U+17E9", "U+1810", "U+1811",
     "U+1812", "U+1813", "U+1814", "U+1815", "U+1816", "U+1817",
     "U+1818", "U+1819", "U+1946", "U+1947", "U+1948", "U+1949",
     "U+194A", "U+194B", "U+194C", "U+194D", "U+194E", "U+194F",
     "U+19D0", "U+19D1", "U+19D2", "U+19D3", "U+19D4", "U+19D5",
     "U+19D6", "U+19D7", "U+19D8", "U+19D9", "U+1A80", "U+1A81",
     "U+1A82", "U+1A83", "U+1A84", "U+1A85", "U+1A86", "U+1A87",
     "U+1A88", "U+1A89", "U+1A90", "U+1A91", "U+1A92", "U+1A93",
     "U+1A94", "U+1A95", "U+1A96", "U+1A97", "U+1A98", "U+1A99",
     "U+1B50", "U+1B51", "U+1B52", "U+1B53", "U+1B54", "U+1B55",
     "U+1B56", "U+1B57", "U+1B58", "U+1B59", "U+1BB0", "U+1BB1",
     "U+1BB2", "U+1BB3", "U+1BB4", "U+1BB5", "U+1BB6", "U+1BB7",
     "U+1BB8", "U+1BB9", "U+1C40", "U+1C41", "U+1C42", "U+1C43",
     "U+1C44", "U+1C45", "U+1C46", "U+1C47", "U+1C48", "U+1C49",
     "U+1C50", "U+1C51", "U+1C52", "U+1C53", "U+1C54", "U+1C55",
     "U+1C56", "U+1C57", "U+1C58", "U+1C59", "U+A620", "U+A621",
     "U+A622", "U+A623", "U+A624", "U+A625", "U+A626", "U+A627",
     "U+A628", "U+A629", "U+A8D0", "U+A8D1", "U+A8D2", "U+A8D3",
     "U+A8D4", "U+A8D5", "U+A8D6", "U+A8D7", "U+A8D8", "U+A8D9",
     "U+A900", "U+A901", "U+A902", "U+A903", "U+A904", "U+A905",
     "U+A906", "U+A907", "U+A908", "U+A909", "U+A9D0", "U+A9D1",
     "U+A9D2", "U+A9D3", "U+A9D4", "U+A9D5", "U+A9D6", "U+A9D7",
     "U+A9D8", "U+A9D9", "U+A9F0", "U+A9F1", "U+A9F2", "U+A9F3",
     "U+A9F4", "U+A9F5", "U+A9F6", "U+A9F7", "U+A9F8", "U+A9F9",
     "U+AA50", "U+AA51", "U+AA52", "U+AA53", "U+AA54", "U+AA55",
     "U+AA56", "U+AA57", "U+AA58", "U+AA59", "U+ABF0", "U+ABF1",
     "U+ABF2", "U+ABF3", "U+ABF4", "U+ABF5", "U+ABF6", "U+ABF7",
     "U+ABF8", "U+ABF9", "U+FF10", "U+FF11", "U+FF12", "U+FF13",
     "U+FF14", "U+FF15", "U+FF16", "U+FF17", "U+FF18", "U+FF19",
     "U+104A0", "U+104A1", "U+104A2", "U+104A3", "U+104A4", "U+104A5",
     "U+104A6", "U+104A7", "U+104A8", "U+104A9", "U+10D30", "U+10D31",
     "U+10D32", "U+10D33", "U+10D34", "U+10D35", "U+10D36", "U+10D37",
     "U+10D38", "U+10D39", "U+11066", "U+11067", "U+11068", "U+11069",
     "U+1106A", "U+1106B", "U+1106C", "U+1106D", "U+1106E", "U+1106F",
     "U+110F0", "U+110F1", "U+110F2", "U+110F3", "U+110F4", "U+110F5",
     "U+110F6", "U+110F7", "U+110F8", "U+110F9", "U+11136", "U+11137",
     "U+11138", "U+11139", "U+1113A", "U+1113B", "U+1113C", "U+1113D",
     "U+1113E", "U+1113F", "U+111D0", "U+111D1", "U+111D2", "U+111D3",
     "U+111D4", "U+111D5", "U+111D6", "U+111D7", "U+111D8", "U+111D9",
     "U+112F0", "U+112F1", "U+112F2", "U+112F3", "U+112F4", "U+112F5",
     "U+112F6", "U+112F7", "U+112F8", "U+112F9", "U+11450", "U+11451",
     "U+11452", "U+11453", "U+11454", "U+11455", "U+11456", "U+11457",
     "U+11458", "U+11459", "U+114D0", "U+114D1", "U+114D2", "U+114D3",
     "U+114D4", "U+114D5", "U+114D6", "U+114D7", "U+114D8", "U+114D9",
     "U+11650", "U+11651", "U+11652", "U+11653", "U+11654", "U+11655",
     "U+11656", "U+11657", "U+11658", "U+11659", "U+116C0", "U+116C1",
     "U+116C2", "U+116C3", "U+116C4", "U+116C5", "U+116C6", "U+116C7",
     "U+116C8", "U+116C9", "U+11730", "U+11731", "U+11732", "U+11733",
     "U+11734", "U+11735", "U+11736", "U+11737", "U+11738", "U+11739",
     "U+118E0", "U+118E1", "U+118E2", "U+118E3", "U+118E4", "U+118E5",
     "U+118E6", "U+118E7", "U+118E8", "U+118E9", "U+11950", "U+11951",
     "U+11952", "U+11953", "U+11954", "U+11955", "U+11956", "U+11957",
     "U+11958", "U+11959", "U+11C50", "U+11C51", "U+11C52", "U+11C53",
     "U+11C54", "U+11C55", "U+11C56", "U+11C57", "U+11C58", "U+11C59",
     "U+11D50", "U+11D51", "U+11D52", "U+11D53", "U+11D54", "U+11D55",
     "U+11D56", "U+11D57", "U+11D58", "U+11D59", "U+11DA0", "U+11DA1",
     "U+11DA2", "U+11DA3", "U+11DA4", "U+11DA5", "U+11DA6", "U+11DA7",
     "U+11DA8", "U+11DA9", "U+16A60", "U+16A61", "U+16A62", "U+16A63",
     "U+16A64", "U+16A65", "U+16A66", "U+16A67", "U+16A68", "U+16A69",
     "U+16AC0", "U+16AC1", "U+16AC2", "U+16AC3", "U+16AC4", "U+16AC5",
     "U+16AC6", "U+16AC7", "U+16AC8", "U+16AC9", "U+16B50", "U+16B51",
     "U+16B52", "U+16B53", "U+16B54", "U+16B55", "U+16B56", "U+16B57",
     "U+16B58", "U+16B59", "U+1D7CE", "U+1D7CF", "U+1D7D0", "U+1D7D1",
     "U+1D7D2", "U+1D7D3", "U+1D7D4", "U+1D7D5", "U+1D7D6", "U+1D7D7",
     "U+1D7D8", "U+1D7D9", "U+1D7DA", "U+1D7DB", "U+1D7DC", "U+1D7DD",
     "U+1D7DE", "U+1D7DF", "U+1D7E0", "U+1D7E1", "U+1D7E2", "U+1D7E3",
     "U+1D7E4", "U+1D7E5", "U+1D7E6", "U+1D7E7", "U+1D7E8", "U+1D7E9",
     "U+1D7EA", "U+1D7EB", "U+1D7EC", "U+1D7ED", "U+1D7EE", "U+1D7EF",
     "U+1D7F0", "U+1D7F1", "U+1D7F2", "U+1D7F3", "U+1D7F4", "U+1D7F5",
     "U+1D7F6", "U+1D7F7", "U+1D7F8", "U+1D7F9", "U+1D7FA", "U+1D7FB",
     "U+1D7FC", "U+1D7FD", "U+1D7FE", "U+1D7FF", "U+1E140", "U+1E141",
     "U+1E142", "U+1E143", "U+1E144", "U+1E145", "U+1E146", "U+1E147",
     "U+1E148", "U+1E149", "U+1E2F0", "U+1E2F1", "U+1E2F2", "U+1E2F3",
     "U+1E2F4", "U+1E2F5", "U+1E2F6", "U+1E2F7", "U+1E2F8", "U+1E2F9",
     "U+1E950", "U+1E951", "U+1E952", "U+1E953", "U+1E954", "U+1E955",
     "U+1E956", "U+1E957", "U+1E958", "U+1E959", "U+1FBF0", "U+1FBF1",
     "U+1FBF2", "U+1FBF3", "U+1FBF4", "U+1FBF5", "U+1FBF6", "U+1FBF7",
     "U+1FBF8", "U+1FBF9"}

\* The characters that \d of a str pattern matches: the decimal digits of
\* Unicode.
DecimalDigits == AsciiDigits \cup OtherDecimalDigits

\* The characters with the Digit property that are not decimal digits:
\* superscripts U+00B2, U+00B3, U+00B9, subscripts, circled digits, ...
NonDecimalDigits ==
    {"U+00B2", "U+00B3", "U+00B9", "U+1369", "U+136A", "U+136B",
     "U+136C", "U+136D", "U+136E", "U+136F", "U+1370", "U+1371",
     "U+19DA", "U+2070", "U+2074", "U+2075", "U+2076", "U+2077",
     "U+2078", "U+2079", "U+2080", "U+2081", "U+2082", "U+2083",
     "U+2084", "U+2085", "U+2086", "U+2087", "U+2088", "U+2089",
     "U+2460", "U+2461", "U+2462", "U+2463", "U+2464", "U+2465",
     "U+2466", "U+2467", "U+2468", "U+2474", "U+2475", "U+2476",
     "U+2477", "U+2478", "U+2479", "U+247A", "U+247B", "U+247C",
     "U+2488", "U+2489", "U+248A", "U+248B", "U+248C", "U+248D",
     "U+248E", "U+248F", "U+2490", "U+24EA", "U+24F5", "U+24F6",
     "U+24F7", "U+24F8", "U+24F9", "U+24FA", "U+24FB", "U+24FC",
     "U+24FD", "U+24FF", "U+2776", "U+2777", "U+2778", "U+2779",
     "U+277A", "U+277B", "U+277C", "U+277D", "U+277E", "U+2780",
     "U+2781", "U+2782", "U+2783", "U+2784", "U+2785", "U+2786",
     "U+2787", "U+2788", "U+278A", "U+278B", "U+278C", "U+278D",
     "U+278E", "U+278F", "U+2790", "U+2791", "U+2792", "U+10A40",
     "U+10A41", "U+10A42", "U+10A43", "U+10E60", "U+10E61", "U+10E62",
     "U+10E63", "U+10E64", "U+10E65", "U+10E66", "U+10E67", "U+10E68",
     "U+11052", "U+11053", "U+11054", "U+11055", "U+11056", "U+11057",
     "U+11058", "U+11059", "U+1105A", "U+1F100", "U+1F101", "U+1F102",
     "U+1F103", "U+1F104", "U+1F105", "U+1F106", "U+1F107", "U+1F108",
     "U+1F109", "U+1F10A"}

\* The characters for which str.isdigit() is true.
Digits == DecimalDigits \cup NonDecimalDigits

Code1 == <<"6", "0", "0", "5", "1", "9">>
Code2 == <<"0", "0", "0", "0", "0", "1">>
Code3 == <<"9", "9", "9", "9", "9", "9">>

\* Six fullwidth digits, and six superscript twos.
CodeFullwidth ==
    <<"U+FF11", "U+FF12", "U+FF13", "U+FF14", "U+FF15", "U+FF16">>
CodeSuperscript ==
    <<"U+00B2", "U+00B2", "U+00B2", "U+00B2", "U+00B2", "U+00B2">>

\* The well-formed codes requested.
ValidCodes == {Code1, Code2, Code3}

\* The values of the code query parameter that are tried; has = FALSE is a
\* request without the parameter.
Queries ==
    {[has |-> TRUE, code |-> c] : c \in ValidCodes}
    \cup {[has |-> TRUE, code |-> <<"1", "2", "3">>],
          [has |-> TRUE, code |-> <<"a", "b", "c", "d", "e", "f">>],
          [has |-> TRUE, code |-> <<"1", "2", "3", "4", "5", "6", "\n">>],
          [has |-> TRUE, code |-> CodeFullwidth],
          [has |-> TRUE, code |-> CodeSuperscript],
          [has |-> FALSE, code |-> <<>>]}

\* str.isdigit(): non-empty and every character has the Digit property.
IsDigitString(s) == Len(s) > 0 /\ \A i \in 1..Len(s) : s[i] \in Digits

\* Query(..., regex=r"^\d{6}$"): Python's re.match.  \d matches a decimal
\* digit of Unicode; "$" matches at the end of the string and also just
\* before a newline that ends the string.
PatternMatches(s) ==
    /\ Len(s) >= 6
    /\ \A i \in 1..6 : s[i] \in DecimalDigits
    /\ \/ Len(s) = 6
       \/ Len(s) = 7 /\ s[7] = "\n"

\* A required query parameter: missing, or not matching the pattern, is
\* answered 422 by the framework before the handler runs.
QueryAccepted(q) == q.has /\ PatternMatches(q.code)

\* The handlers' test with the "not" before isdigit() left out.
HandlerRejects_NotDropped(code) ==
    code = <<>> \/ Len(code) # 6 \/ IsDigitString(code)

\* The handlers' own test: not code or len(code) != 6 or not code.isdigit().
HandlerRejects(code) ==
    code = <<>> \/ Len(code) # 6 \/ ~IsDigitString(code)

\* The except clauses with the two service exceptions' statuses exchanged.
StatusOfError_Exchanged(err) ==
    CASE err = "StockNotFoundError" -> 500
      [] err = "StockDataError" -> 404
      [] err = "ValidationError" -> 400
      [] OTHER -> 500

\* get_stock_full_report's except clauses, in order: StockNotFoundError,
\* StockDataError, ValidationError, then Exception.  The HTTPException(400)
\* that the handler raises inside its own try block is an Exception that
\* none of the first three clauses names, so the last clause answers it.
StatusOfError(err) ==
    CASE err = "StockNotFoundError" -> 404
      [] err = "StockDataError" -> 500
      [] err = "ValidationError" -> 400
      [] OTHER -> 500

\* get_stock_basic_info has the single clause "except Exception".
InfoStatusOfError(err) == 500

----------------------------------------------------------------------------
(* Reports *)

FundamentalAnalysis == [info_fields |-> FALSE, financial_fields |-> FALSE]
ValuationAnalysis == [ratio_fields |-> FALSE]
TechnicalAnalysis == [spot_fields |-> FALSE, ma_fields |-> FALSE]
SentimentAnalysis == [flow_fields |-> FALSE, concept_labels |-> "None"]

StockReport(code, name, t, f, v, te, s) ==
    [code |-> code, name |-> name, update_time |-> t,
     fundamental_analysis |-> f, valuation_analysis |-> v,
     technical_analysis |-> te, sentiment_analysis |-> s]

\* The body of a response that carries no report.
NoReport ==
    StockReport(<<>>, "", 0, FundamentalAnalysis, ValuationAnalysis,
                TechnicalAnalysis, SentimentAnalysis)

----------------------------------------------------------------------------
(* StockService *)

\* The prefix of the cache keys.
CacheKeyPrefix == <<"s", "t", "o", "c", "k", "_">>

\* A cache key that is the same for every code.
get_cache_key_Shared(code) == CacheKeyPrefix

\* _get_cache_key: f"stock_{stock_code}".
get_cache_key(code) == CacheKeyPrefix \o code

\* The expiry test with its comparison turned round.
is_cache_expired_Flipped(t, cache_time) ==
    ((t - cache_time) % SecondsPerDay) < CACHE_TTL

\* _is_cache_expired at time t: (datetime.now() - cache_time).seconds, the
\* seconds part of the difference with the whole days left out.
is_cache_expired(t, cache_time) ==
    ((t - cache_time) % SecondsPerDay) > CACHE_TTL

\* The keys of order that are left when those at the positions gone are
\* deleted, in the same order.
KeysLeft(order, gone) ==
    LET left[i \in 0..Len(order)] ==
            IF i = 0 THEN <<>>
            ELSE IF i \in gone THEN left[i - 1]
            ELSE Append(left[i - 1], order[i])
    IN left[Len(order)]

\* _clear_expired_cache: the cache, the order of its keys and the last-sweep
\* time it leaves, and the number of entries it tested.  It reads the clock
\* once for current_time, t, and then once for every entry it tests, in the
\* order of the dict: times[i] is the reading for the i-th entry.
clear_expired_cache(t, times, c, order, last) ==
    IF ((t - last) % SecondsPerDay) > CACHE_TTL
    THEN LET expired ==
                 {i \in 1..Len(order) :
                     is_cache_expired(times[i], c[order[i]].cache_time)}
             expired_keys == {order[i] : i \in expired}
         IN [cache |-> [k \in (DOMAIN c) \ expired_keys |-> c[k]],
             order |-> KeysLeft(order, expired),
             last |-> t, tested |-> Len(order)]
    ELSE [cache |-> c, order |-> order, last |-> last, tested |-> 0]

\* The outcomes of ak.stock_individual_info_em: it raises, returns an empty
\* frame, returns rows without a stock name, or returns rows with one.
PrimaryOutcomes == {"raise", "empty", "noname", "named"}

\* The outcomes of the other provider calls: the call raises, returns
\* nothing to use (an empty frame, no row for the code, fewer than 60 days
\* of history), or returns rows.
CallOutcomes == {"raise", "empty", "ok"}

\* The number of the outcomes given that are out.
Count(outs, out) == Cardinality({i \in DOMAIN outs : outs[i] = out})

\* lru_cache bookkeeping: the position of code in the list, 0 when absent.
LruIndex(lru, code) ==
    IF \E i \in 1..Len(lru) : lru[i].code = code
    THEN CHOOSE i \in 1..Len(lru) : lru[i].code = code
    ELSE 0

LruRemove(lru, i) == SubSeq(lru, 1, i - 1) \o SubSeq(lru, i + 1, Len(lru))

\* A hit moves the entry to the most recent end.
LruTouch(lru, i) == Append(LruRemove(lru, i), lru[i])

\* A stored result evicts the least recent entry when the list is full.
LruInsert(lru, code, info) ==
    LET e == [code |-> code, info |-> info]
    IN IF Len(lru) >= MAX_CACHE_SIZE
       THEN Append(Tail(lru), e)
       ELSE Append(lru, e)

\* The exception _get_stock_info raises for an empty frame: the
\* StockNotFoundError is raised inside the try block, caught by its
\* "except Exception" and raised again as StockDataError.
ErrorOfEmptyInfo == "StockDataError"

\* _get_stock_info(code) under @lru_cache(maxsize=MAX_CACHE_SIZE), with out
\* the provider's outcome should it be called.  A result is remembered, an
\* exception is not.
get_stock_info(lru, code, out) ==
    LET i == LruIndex(lru, code)
    IN IF i # 0
       THEN [err |-> "none", info |-> lru[i].info, lru |-> LruTouch(lru, i),
             called |-> FALSE, raised |-> FALSE]
       ELSE CASE out = "raise" ->
                   [err |-> "StockDataError", info |-> [name |-> ""],
                    lru |-> lru, called |-> TRUE, raised |-> TRUE]
              [] out = "empty" ->
                   [err |-> ErrorOfEmptyInfo, info |-> [name |-> ""],
                    lru |-> lru, called |-> TRUE, raised |-> FALSE]
              [] OTHER ->
                   LET info == [name |-> IF out = "named" THEN "N" ELSE ""]
                   IN [err |-> "none", info |-> info,
                       lru |-> LruInsert(lru, code, info),
                       called |-> TRUE, raised |-> FALSE]

\* The four section fetches.  Each returns the section it builds, the
\* lru_cache it leaves, whether it called the provider, how many of its
\* provider calls raised and how many returned nothing to use.  Every one
\* of them catches Exception and returns the default section.

\* _get_fundamental_data: the remembered primary lookup, then the financial
\* indicators.
get_fundamental_data(lru, code, infoOut, finOut) ==
    LET g == get_stock_info(lru, code, infoOut)
    IN IF g.err # "none"
       THEN [section |-> FundamentalAnalysis, lru |-> g.lru,
             called |-> g.called, raised |-> IF g.raised THEN 1 ELSE 0,
             short |-> 0]
       ELSE IF finOut = "raise"
       THEN [section |-> FundamentalAnalysis, lru |-> g.lru, called |-> TRUE,
             raised |-> 1, short |-> 0]
       ELSE [section |-> [info_fields |-> TRUE,
                          financial_fields |-> (finOut = "ok")],
             lru |-> g.lru, called |-> TRUE, raised |-> 0,
             short |-> Count(<<finOut>>, "empty")]

\* _get_valuation_data: the remembered primary lookup only.
get_valuation_data(lru, code, infoOut) ==
    LET g == get_stock_info(lru, code, infoOut)
    IN IF g.err # "none"
       THEN [section |-> ValuationAnalysis, lru |-> g.lru,
             called |-> g.called, raised |-> IF g.raised THEN 1 ELSE 0,
             short |-> 0]
       ELSE [section |-> [ratio_fields |-> TRUE], lru |-> g.lru,
             called |-> g.called, raised |-> 0, short |-> 0]

\* _get_technical_data: the spot quotes, then the daily history; an outcome
\* "empty" is a frame without the code's row, or with fewer than 60 days.
\* The history is not asked for when the spot quotes raise.
get_technical_data(spotOut, histOut) ==
    IF spotOut = "raise" \/ histOut = "raise"
    THEN [section |-> TechnicalAnalysis, called |-> TRUE, raised |-> 1,
          short |-> IF spotOut = "empty" THEN 1 ELSE 0]
    ELSE [section |-> [spot_fields |-> (spotOut = "ok"),
                       ma_fields |-> (histOut = "ok")],
          called |-> TRUE, raised |-> 0,
          short |-> Count(<<spotOut, histOut>>, "empty")]

\* _get_sentiment_data: each of its two provider calls has a try block of
\* its own.  A failing fund-flow call is passed over, as an empty frame is;
\* a failing concept call sets concept_labels to the empty list, which is
\* also what a frame without a row for the code gives.
get_sentiment_data(flowOut, conceptOut) ==
    [section |-> [flow_fields |-> (flowOut = "ok"),
                  concept_labels |->
                      IF conceptOut = "ok" THEN "labels" ELSE "[]"],
     called |-> TRUE,
     raised |-> Count(<<flowOut, conceptOut>>, "raise"),
     short |-> Count(<<flowOut, conceptOut>>, "empty")]

\* The store with "<=" for "<": one entry more than MAX_CACHE_SIZE.
StoreReport_OffByOne(c, key, report, t) ==
    IF Cardinality(DOMAIN c) <= MAX_CACHE_SIZE
    THEN [k \in (DOMAIN c) \cup {key} |->
              IF k = key THEN [report |-> report, cache_time |-> t]
              ELSE c[k]]
    ELSE c

\* get_full_stock_report, the store at its end: only below MAX_CACHE_SIZE.
StoreReport(c, key, report, t) ==
    IF Cardinality(DOMAIN c) < MAX_CACHE_SIZE
    THEN [k \in (DOMAIN c) \cup {key} |->
              IF k = key THEN [report |-> report, cache_time |-> t]
              ELSE c[k]]
    ELSE c

\* The order of the keys after the store that left the cache c: a key that
\* is new to the dict goes to its end, a key that was there keeps its place.
StoreOrder(order, c, key) ==
    IF key \in DOMAIN c /\ \A i \in 1..Len(order) : order[i] # key
    THEN Append(order, key)
    ELSE order

\* The except clauses that end get_full_stock_report: StockNotFoundError is
\* raised again as it is, any other exception as StockDataError.
ReraisedError(err) ==
    IF err = "StockNotFoundError" THEN err ELSE "StockDataError"

\* The check of the stock name left out.
ErrorOfName_Unchecked(name) == "none"

\* stock_name = stock_info.get(<the name item>, ''); if not stock_name:
\* raise StockNotFoundError.
ErrorOfName(name) ==
    IF name = "" THEN "StockNotFoundError" ELSE "none"

\* get_full_stock_report up to its await, with cache c, last-sweep time
\* last and lru_cache lru: a cache hit returns the cached report; otherwise
\* the sweep, then the primary lookup, which ends the call with an exception
\* or lets it go on to the four section fetches.  The clock reads t when
\* the entry of the code is tested, ts when the sweep takes current_time and
\* times[i] when the sweep tests the i-th entry of the cache, whose keys
\* are held in the order order.
get_full_stock_report(t, ts, times, c, order, last, lru, code, out) ==
    LET key == get_cache_key(code)
    IN IF key \in DOMAIN c /\ ~is_cache_expired(t, c[key].cache_time)
       THEN [kind |-> "hit", report |-> c[key].report, err |-> "none",
             name |-> c[key].report.name,
             cache |-> c, order |-> order, last |-> last, lru |-> lru,
             called |-> FALSE, raised |-> FALSE, tested |-> 0]
       ELSE LET sw == clear_expired_cache(ts, times, c, order, last)
                g == get_stock_info(lru, code, out)
                err == IF g.err # "none" THEN g.err
                       ELSE ErrorOfName(g.info.name)
            IN [kind |-> IF err = "none" THEN "await" ELSE "error",
                report |-> NoReport,
                err |-> IF err = "none" THEN err ELSE ReraisedError(err),
                name |-> g.info.name,
                cache |-> sw.cache, order |-> sw.order,
                last |-> sw.last, lru |-> g.lru,
                called |-> g.called, raised |-> g.raised,
                tested |-> sw.tested]

----------------------------------------------------------------------------
(* State *)

Tasks == {"fundamental", "valuation", "technical", "sentiment"}

\* A request slot with no call in it.  entry, primary, called, raised and
\* overlap are observers: what the call found in the cache when it started
\* ("none", or an entry "fresh" or "stale" by its true age), the outcome of
\* its own primary lookup at the provider, whether it called the provider,
\* the sections one of whose provider calls raised, and whether another
\* call for the same code was suspended while this one was.
IdleReq ==
    [pc |-> "idle", code |-> <<>>, name |-> "", entry |-> "none",
     primary |-> "notcalled", called |-> FALSE, raised |-> {}, done |-> {},
     overlap |-> FALSE,
     fundamental |-> FundamentalAnalysis, valuation |-> ValuationAnalysis,
     technical |-> TechnicalAnalysis, sentiment |-> SentimentAnalysis]

\* No response: the step just taken answered no request.
NoResp ==
    [endpoint |-> "none", has |-> FALSE, code |-> <<>>, status |-> 0,
     body |-> NoReport, info_code |-> <<>>, from_cache |-> FALSE,
     was_full |-> FALSE, entry |-> "none", primary |-> "notcalled",
     called |-> FALSE, raised |-> {}, overlap |-> FALSE]

\* A response that carries no report.
ErrorResp(endpoint, q, status) ==
    [NoResp EXCEPT !.endpoint = endpoint, !.has = q.has, !.code = q.code,
                   !.status = status]

\* What a call for code finds in the cache, by the entry's true age.
EntryOf(code) ==
    IF get_cache_key(code) \notin DOMAIN cache THEN "none"
    ELSE IF now - cache[get_cache_key(code)].cache_time > CACHE_TTL THEN "stale"
    ELSE "fresh"

Init ==
    /\ now = 0
    /\ cache = <<>>
    /\ cache_order = <<>>
    /\ last_clear_cache = 0
    /\ info_cache = <<>>
    /\ req = [r \in Reqs |-> IdleReq]
    /\ resp = NoResp
    /\ faults = 0

----------------------------------------------------------------------------
(* Actions *)

TicksUsed == (now \div SecondsPerDay) + ((now % SecondsPerDay) \div ShortStep)

\* Time passes.
Tick(d) ==
    /\ TicksUsed < MaxTicks
    /\ now' = now + d
    /\ resp' = NoResp
    /\ UNCHANGED <<cache, cache_order, last_clear_cache, info_cache, req,
                   faults>>

\* GET /api/v1/stock/info with query q.
get_stock_basic_info(q) ==
    /\ resp' = IF ~QueryAccepted(q) THEN ErrorResp("info", q, 422)
               ELSE IF HandlerRejects(q.code)
               THEN ErrorResp("info", q, InfoStatusOfError("HTTPException"))
               ELSE [ErrorResp("info", q, 200) EXCEPT !.info_code = q.code]
    /\ UNCHANGED <<now, cache, cache_order, last_clear_cache, info_cache,
                   req, faults>>

\* A new call takes the first free slot.
FreeSlot(r) ==
    /\ req[r].pc = "idle"
    /\ \A r2 \in Reqs : r2 < r => req[r2].pc # "idle"

\* A call for code is suspended at its await.
SameCodeSuspended(code) ==
    \E r2 \in Reqs : req[r2].pc = "awaiting" /\ req[r2].code = code

\* The clock may still move on by d to read t.
GapAllowed(d, t) ==
    IF d = 0 THEN TRUE
    ELSE ((t % SecondsPerDay) % ShortStep) <= MaxGaps * ClockStep

\* The time that passes between two readings of the clock in one step.
ClockSteps == {0, ClockStep}

\* The times that pass in get_full_stock_report up to its await: g[1]
\* between the test of the code's entry and the start of the sweep, and
\* g[1 + i] between the reading before it and the sweep's test of the i-th
\* entry of the cache.
ClockGaps == [1..(MAX_CACHE_SIZE + 1) -> ClockSteps]
NoGap == [i \in 1..(MAX_CACHE_SIZE + 1) |-> 0]

\* The time that passes over the first n gaps of g.
RECURSIVE GapSum(_, _)
GapSum(g, n) ==
    IF n = 0 THEN 0
    ELSE (IF n \in DOMAIN g THEN g[n] ELSE 0) + GapSum(g, n - 1)

\* GET /api/v1/stock/full-report with query q, in slot r, up to the await of
\* get_full_stock_report; out is the primary lookup's outcome at the
\* provider and g the times that pass between the readings of the clock.
\* The request is answered here unless it goes on to the fetches.
get_stock_full_report(r, q, out, g) ==
    /\ FreeSlot(r)
    /\ now' = now + GapSum(g, MAX_CACHE_SIZE + 1)
    /\ GapAllowed(GapSum(g, MAX_CACHE_SIZE + 1),
                  now + GapSum(g, MAX_CACHE_SIZE + 1))
    /\ UNCHANGED faults
    /\ IF ~QueryAccepted(q)
       THEN /\ g = NoGap
            /\ resp' = ErrorResp("full", q, 422)
            /\ UNCHANGED <<cache, cache_order, last_clear_cache, info_cache,
                           req>>
       ELSE IF HandlerRejects(q.code)
       THEN /\ g = NoGap
            /\ resp' = ErrorResp("full", q, StatusOfError("HTTPException"))
            /\ UNCHANGED <<cache, cache_order, last_clear_cache, info_cache,
                           req>>
       ELSE LET times == [i \in 1..Len(cache_order) |->
                              now + GapSum(g, 1 + i)]
                b == get_full_stock_report(now, now + g[1], times, cache,
                                          cache_order, last_clear_cache,
                                          info_cache, q.code, out)
                seen == [ErrorResp("full", q, 0) EXCEPT
                            !.entry = EntryOf(q.code),
                            !.primary = IF b.called THEN out
                                        ELSE "notcalled",
                            !.called = b.called]
            IN /\ g[1] # 0 => get_cache_key(q.code) \in DOMAIN cache
               /\ \A i \in 1..MAX_CACHE_SIZE : g[1 + i] # 0 => i <= b.tested
               /\ b.kind = "hit" => g = NoGap
               /\ cache' = b.cache
               /\ cache_order' = b.order
               /\ last_clear_cache' = b.last
               /\ info_cache' = b.lru
               /\ CASE b.kind = "hit" ->
                        /\ resp' = [seen EXCEPT !.status = 200,
                                                !.body = b.report,
                                                !.from_cache = TRUE]
                        /\ UNCHANGED req
                    [] b.kind = "error" ->
                        /\ resp' = [seen EXCEPT
                                       !.status = StatusOfError(b.err)]
                        /\ UNCHANGED req
                    [] OTHER ->
                        /\ resp' = NoResp
                        /\ req' = [r2 \in Reqs |->
                              IF r2 = r
                              THEN [IdleReq EXCEPT
                                       !.pc = "awaiting",
                                       !.code = q.code,
                                       !.name = b.name,
                                       !.entry = seen.entry,
                                       !.primary = seen.primary,
                                       !.called = seen.called,
                                       !.overlap = SameCodeSuspended(q.code)]
                              ELSE IF req[r2].code = q.code
                              THEN [req[r2] EXCEPT !.overlap = TRUE]
                              ELSE req[r2]]

\* The task of slot r for one section has run to its end with result f.
TaskDone(r, task, f) ==
    /\ faults + f.raised + f.short <= MaxFaults
    /\ faults' = faults + f.raised + f.short
    /\ req' = [req EXCEPT
                  ![r].called = @ \/ f.called,
                  ![r].raised = IF f.raised > 0 THEN @ \cup {task} ELSE @,
                  ![r].done = @ \cup {task},
                  ![r].fundamental =
                      IF task = "fundamental" THEN f.section ELSE @,
                  ![r].valuation =
                      IF task = "valuation" THEN f.section ELSE @,
                  ![r].technical =
                      IF task = "technical" THEN f.section ELSE @,
                  ![r].sentiment =
                      IF task = "sentiment" THEN f.section ELSE @]
    /\ resp' = NoResp
    /\ UNCHANGED <<now, cache, cache_order, last_clear_cache>>

Pending(r, task) == req[r].pc = "awaiting" /\ task \notin req[r].done

\* One of the four gathered tasks of the call in slot r runs to its end.
fundamental_task(r, infoOut, finOut) ==
    /\ Pending(r, "fundamental")
    /\ LET f == get_fundamental_data(info_cache, req[r].code, infoOut, finOut)
       IN /\ info_cache' = f.lru
          /\ TaskDone(r, "fundamental", f)

valuation_task(r, infoOut) ==
    /\ Pending(r, "valuation")
    /\ LET f == get_valuation_data(info_cache, req[r].code, infoOut)
       IN /\ info_cache' = f.lru
          /\ TaskDone(r, "valuation", f)

technical_task(r, spotOut, histOut) ==
    /\ Pending(r, "technical")
    /\ TaskDone(r, "technical", get_technical_data(spotOut, histOut))
    /\ UNCHANGED info_cache

sentiment_task(r, flowOut, conceptOut) ==
    /\ Pending(r, "sentiment")
    /\ TaskDone(r, "sentiment", get_sentiment_data(flowOut, conceptOut))
    /\ UNCHANGED info_cache

\* gather that returns as soon as one task has ended with an exception.
GatherDone_FirstException(r) ==
    req[r].done = Tasks \/ req[r].raised # {}

\* await asyncio.gather(..., return_exceptions=True): the call in slot r is
\* resumed when every one of the four tasks has run to its end.
GatherDone(r) ==
    req[r].done = Tasks

\* gather has all four results: the call in slot r builds the report,
\* stores it if the cache has room, and the handler answers 200 with it.
\* The clock is read for update_time and, d later, for the entry's
\* cache_time if the report is stored.
get_full_stock_report_resume(r, d) ==
    /\ req[r].pc = "awaiting" /\ GatherDone(r)
    /\ GapAllowed(d, now + d)
    /\ d # 0 => Cardinality(DOMAIN cache) < MAX_CACHE_SIZE
    /\ now' = now + d
    /\ LET q == req[r]
           report == StockReport(q.code, q.name, now, q.fundamental,
                                 q.valuation, q.technical, q.sentiment)
       IN /\ cache' =
                StoreReport(cache, get_cache_key(q.code), report, now + d)
          /\ cache_order' =
                StoreOrder(cache_order, cache', get_cache_key(q.code))
          /\ resp' = [NoResp EXCEPT
                         !.endpoint = "full", !.has = TRUE,
                         !.code = q.code, !.status = 200, !.body = report,
                         !.was_full =
                             (Cardinality(DOMAIN cache) >= MAX_CACHE_SIZE),
                         !.entry = q.entry, !.primary = q.primary,
                         !.called = q.called, !.raised = q.raised,
                         !.overlap = q.overlap]
    /\ req' = [req EXCEPT ![r] = IdleReq]
    /\ UNCHANGED <<last_clear_cache, info_cache, faults>>

\* The well-formed queries.
ValidQueries == {q \in Queries : q.has /\ q.code \in ValidCodes}

\* The service under one request at a time for well-formed codes, with
\* every outcome of the provider and a clock that runs.
Next ==
    \/ \E d \in {ShortStep, SecondsPerDay} : Tick(d)
    \/ \E q \in ValidQueries, out \in PrimaryOutcomes :
           get_stock_full_report(1, q, out, NoGap)
    \/ \E i \in PrimaryOutcomes, o \in CallOutcomes :
           fundamental_task(1, i, o)
    \/ \E i \in PrimaryOutcomes : valuation_task(1, i)
    \/ \E o1 \in CallOutcomes, o2 \in CallOutcomes : technical_task(1, o1, o2)
    \/ \E o1 \in CallOutcomes, o2 \in CallOutcomes : sentiment_task(1, o1, o2)
    \/ get_full_stock_report_resume(1, 0)

Spec == Init /\ [][Next]_vars

\* The queries sent to the two endpoints: every kind of malformed query,
\* and three codes that are accepted, one of them of fullwidth digits.
HttpQueries == {q \in Queries : q.code # Code3}

\* The two endpoints under these queries, one request at a time, with every
\* outcome of the primary lookup and section calls that succeed.
NextHttp ==
    \/ \E d \in {ShortStep, SecondsPerDay} : Tick(d)
    \/ \E q \in HttpQueries : get_stock_basic_info(q)
    \/ \E q \in HttpQueries, out \in PrimaryOutcomes :
           get_stock_full_report(1, q, out, NoGap)
    \/ fundamental_task(1, "named", "ok")
    \/ valuation_task(1, "named")
    \/ technical_task(1, "ok", "ok")
    \/ sentiment_task(1, "ok", "ok")
    \/ get_full_stock_report_resume(1, 0)

SpecHttp == Init /\ [][NextHttp]_vars

\* Requests that overlap, for well-formed codes, with a primary lookup and
\* section calls that succeed and a clock that makes one step, past the TTL.
NextConc ==
    \/ now = 0 /\ Tick(2 * ShortStep)
    \/ \E r \in Reqs, q \in ValidQueries :
           get_stock_full_report(r, q, "named", NoGap)
    \/ \E r \in Reqs : fundamental_task(r, "named", "ok")
    \/ \E r \in Reqs : valuation_task(r, "named")
    \/ \E r \in Reqs : technical_task(r, "ok", "ok")
    \/ \E r \in Reqs : sentiment_task(r, "ok", "ok")
    \/ \E r \in Reqs : get_full_stock_report_resume(r, 0)

SpecConc == Init /\ [][NextConc]_vars

\* One request at a time for well-formed codes that the provider knows,
\* with section calls that succeed and a clock that also moves on between
\* the readings that a call makes of it.
NextClock ==
    \/ \E d \in {ShortStep, SecondsPerDay} : Tick(d)
    \/ \E q \in ValidQueries, g \in ClockGaps :
           get_stock_full_report(1, q, "named", g)
    \/ fundamental_task(1, "named", "ok")
    \/ valuation_task(1, "named")
    \/ technical_task(1, "ok", "ok")
    \/ sentiment_task(1, "ok", "ok")
    \/ \E d \in ClockSteps : get_full_stock_report_resume(1, d)

SpecClock == Init /\ [][NextClock]_vars

\* A step of get_full_stock_report up to its await, whatever the clock does
\* (it stands still over the step only when every gap is 0).
Begins(r, q, out) ==
    \E g \in (IF now' = now THEN {NoGap} ELSE ClockGaps \ {NoGap}) :
        get_stock_full_report(r, q, out, g)

\* A step of get_full_stock_report after its await, whatever the clock does.
Resumes(r) ==
    \E d \in ClockSteps : get_full_stock_report_resume(r, d)

\* The step can be the start of a full-report call for q in slot r: the slot
\* was free, and the step suspended the slot on q's code or answered a
\* full-report request for it.
BeginStep(r, q) ==
    /\ req[r].pc = "idle"
    /\ IF req'[r].pc = "awaiting" THEN req'[r].code = q.code
       ELSE resp'.endpoint = "full" /\ resp'.code = q.code

----------------------------------------------------------------------------
(* Claims *)

\* The response just sent answers a full-report request.
FullResp == resp.endpoint = "full"

\* The response just sent carries a report built by its own request.
BuiltResp == FullResp /\ resp.status = 200 /\ ~resp.from_cache

\* The query is a well-formed code: exactly six decimal digits.
WellFormed(has, code) ==
    has /\ Len(code) = 6 /\ \A i \in 1..Len(code) : code[i] \in DecimalDigits

\* C1, as claimed: a get_full_stock_report(c) call made right after a call
\* for c has returned a report (so within CACHE_TTL seconds of that return)
\* gets the identical report and makes no call to the data provider,
\* whatever else the cache holds.
C1_Original ==
    [][\A r \in Reqs, out \in PrimaryOutcomes :
          (/\ FullResp /\ resp.status = 200
           /\ Begins(r, [has |-> TRUE, code |-> resp.code], out))
          => (/\ resp'.endpoint = "full" /\ resp'.status = 200
              /\ resp'.body = resp.body
              /\ ~resp'.called)]_vars

\* C1, amended: a full-report call for c that finds a cache entry for c
\* stored at most CACHE_TTL seconds earlier is answered 200 with exactly
\* that entry's report (same contents, same update_time, which is the time
\* the report was built, not later than the time it was stored), makes no
\* call to the provider, and the entry stays in the cache as it was.
C1_FreshEntryServed ==
    (FullResp /\ resp.entry = "fresh")
    => /\ resp.status = 200
       /\ resp.from_cache
       /\ ~resp.called
       /\ get_cache_key(resp.code) \in DOMAIN cache
       /\ cache[get_cache_key(resp.code)].report = resp.body
       /\ cache[get_cache_key(resp.code)].cache_time >= resp.body.update_time
       /\ now - cache[get_cache_key(resp.code)].cache_time <= CACHE_TTL

\* A request answered from an entry stored ShortStep seconds before it,
\* ClockStep after its report was built, while the cache was full.
C1_Witness ==
    /\ FullResp /\ resp.entry = "fresh" /\ resp.status = 200
    /\ cache[get_cache_key(resp.code)].cache_time
          = resp.body.update_time + ClockStep
    /\ now - cache[get_cache_key(resp.code)].cache_time = ShortStep
    /\ Cardinality(DOMAIN cache) = MAX_CACHE_SIZE

\* C2, as claimed: a call for a code whose cache entry was stored more than
\* CACHE_TTL seconds earlier, and which succeeds, calls the provider and
\* leaves in the cache the report it built, stamped with the current time.
C2_Original ==
    (FullResp /\ resp.status = 200 /\ resp.entry = "stale")
    => /\ resp.called
       /\ ~resp.from_cache
       /\ get_cache_key(resp.code) \in DOMAIN cache
       /\ cache[get_cache_key(resp.code)] =
              [report |-> resp.body, cache_time |-> now]

\* C3, as claimed: a well-formed code whose primary lookup returns an empty
\* result, or a result without a stock name, is answered 404.
C3_Original ==
    (FullResp /\ WellFormed(resp.has, resp.code)
     /\ resp.primary \in {"empty", "noname"})
    => resp.status = 404

\* C4, as claimed: a full-report request whose code is not exactly six
\* digits, or is missing, is answered 400 or 422.
C4_Original ==
    (FullResp /\ ~WellFormed(resp.has, resp.code))
    => resp.status \in {400, 422}

\* The section that a suspended call holds for a task.
HeldSection(q, task) ==
    CASE task = "fundamental" -> q.fundamental
      [] task = "valuation" -> q.valuation
      [] task = "technical" -> q.technical
      [] OTHER -> q.sentiment

\* The section of a report that a task fills.
SectionOf(report, task) ==
    CASE task = "fundamental" -> report.fundamental_analysis
      [] task = "valuation" -> report.valuation_analysis
      [] task = "technical" -> report.technical_analysis
      [] OTHER -> report.sentiment_analysis

\* Every field of the section is empty (None, or a list without elements).
AllFieldsEmpty(section, task) ==
    CASE task = "fundamental" -> section = FundamentalAnalysis
      [] task = "valuation" -> section = ValuationAnalysis
      [] task = "technical" -> section = TechnicalAnalysis
      [] OTHER -> /\ ~section.flow_fields
                  /\ section.concept_labels \in {"None", "[]"}

\* The section as the fetch builds it when none of its calls fails.
FullSection(task) ==
    CASE task = "fundamental" ->
             [info_fields |-> TRUE, financial_fields |-> TRUE]
      [] task = "valuation" -> [ratio_fields |-> TRUE]
      [] task = "technical" -> [spot_fields |-> TRUE, ma_fields |-> TRUE]
      [] OTHER -> [flow_fields |-> TRUE, concept_labels |-> "labels"]

\* C5, as claimed: when the primary lookup gave a name and provider calls of
\* one or more section fetches raised, the answer is 200 with every field of
\* each failing section empty and the other sections as fetched.
C5_Original ==
    [][\A r \in Reqs :
          (Resumes(r) /\ req[r].raised # {})
          => /\ resp'.status = 200
             /\ \A task \in Tasks :
                   IF task \in req[r].raised
                   THEN AllFieldsEmpty(SectionOf(resp'.body, task), task)
                   ELSE SectionOf(resp'.body, task)
                           = HeldSection(req[r], task)]_vars

\* C6: a full-report request ends in one of 200, 400, 422, 404 and 500, and
\* in 500 when its primary lookup raised at the provider.
C6_PrimaryErrorIs500 ==
    FullResp
    => /\ resp.status \in {200, 400, 422, 404, 500}
       /\ (resp.primary = "raise" => resp.status = 500)

C6_Witness ==
    FullResp /\ resp.primary = "raise" /\ resp.status = 500
    /\ WellFormed(resp.has, resp.code)

\* C7: for a well-formed six-digit code the info endpoint answers 200 with
\* the requested code in the body, calls no provider, and leaves the report
\* cache, the last-sweep time and the remembered lookups as they were.
C7_InfoIsPlaceholder ==
    [][\A q \in Queries :
          (WellFormed(q.has, q.code) /\ get_stock_basic_info(q))
          => (/\ resp'.endpoint = "info"
              /\ resp'.status = 200
              /\ resp'.info_code = q.code
              /\ ~resp'.called
              /\ cache' = cache
              /\ last_clear_cache' = last_clear_cache
              /\ info_cache' = info_cache
              /\ req' = req)]_vars

\* The info endpoint answered 200 while the cache was full and a
\* full-report call was suspended at its await.
C7_Witness ==
    /\ resp.endpoint = "info" /\ resp.status = 200
    /\ resp.info_code = Code1
    /\ Cardinality(DOMAIN cache) = MAX_CACHE_SIZE
    /\ req[1].pc = "awaiting"

\* C8, as claimed: no request is answered from a cache entry stored more
\* than CACHE_TTL seconds before it.
C8_Original ==
    (FullResp /\ resp.from_cache) => resp.entry # "stale"

\* C9: the cache never holds more than MAX_CACHE_SIZE entries, and a report
\* built while it holds MAX_CACHE_SIZE entries is returned with 200 and the
\* cache is left exactly as it was (nothing stored, nothing evicted).
C9_SizeGuard ==
    [][/\ Cardinality(DOMAIN cache') <= MAX_CACHE_SIZE
       /\ \A r \in Reqs :
             (/\ Resumes(r)
              /\ Cardinality(DOMAIN cache) >= MAX_CACHE_SIZE)
             => (/\ cache' = cache
                 /\ resp'.status = 200
                 /\ resp'.body.code = req[r].code
                 /\ resp'.body.update_time = now)]_vars

\* A report was returned while the cache was full and the other slot held
\* a call suspended at its await.
C9_Witness ==
    /\ BuiltResp /\ resp.was_full
    /\ Cardinality(DOMAIN cache) = MAX_CACHE_SIZE
    /\ get_cache_key(resp.code) \notin DOMAIN cache
    /\ \E r \in Reqs : req[r].pc = "awaiting"

\* C10, as claimed: a report built on a cache miss uses primary-lookup data
\* that its own request obtained from the provider.
C10_Original ==
    BuiltResp => resp.primary = "named"

\* The two fetches that share the remembered primary lookup give the same
\* sections and leave the same remembered lookups in either order, for the
\* same answers of the provider.
FetchesCommute(code, infoOut, finOut) ==
    LET f1 == get_fundamental_data(info_cache, code, infoOut, finOut)
        v2 == get_valuation_data(f1.lru, code, infoOut)
        v1 == get_valuation_data(info_cache, code, infoOut)
        f2 == get_fundamental_data(v1.lru, code, infoOut, finOut)
    IN /\ f1.section = f2.section
       /\ v1.section = v2.section
       /\ v2.lru = f2.lru

\* The fetch of slot r that ends in this step leaves the section that the
\* answers of its own provider calls give, whatever the other fetches did.
OwnSection(r, task) ==
    CASE task = "fundamental" ->
             \A i \in PrimaryOutcomes, o \in CallOutcomes :
                fundamental_task(r, i, o)
                => req'[r].fundamental =
                      get_fundamental_data(info_cache, req[r].code,
                                           i, o).section
      [] task = "valuation" ->
             \A i \in PrimaryOutcomes :
                valuation_task(r, i)
                => req'[r].valuation =
                      get_valuation_data(info_cache, req[r].code, i).section
      [] task = "technical" ->
             \A o1 \in CallOutcomes, o2 \in CallOutcomes :
                technical_task(r, o1, o2)
                => req'[r].technical = get_technical_data(o1, o2).section
      [] OTHER ->
             \A o1 \in CallOutcomes, o2 \in CallOutcomes :
                sentiment_task(r, o1, o2)
                => req'[r].sentiment = get_sentiment_data(o1, o2).section

\* C11: the report is built, stored and returned only when all four section
\* fetches have ended, in whatever order they end.  A fetch that ends writes
\* its own section only, the one that the answers of its own provider calls
\* give, whichever fetches have ended or raised before it, and the call
\* stays suspended; the report is made of the four sections as the fetches
\* left them, whatever happened to the other three; and when the valuation
\* fetch ends before the fundamental one, the two, which share the
\* remembered lookup, would have left the same sections and the same
\* remembered lookups in the other order, for every answer of the provider.
C11_GatherAllFour ==
    [][/\ \A r \in Reqs :
             /\ \A task \in Tasks :
                   (Pending(r, task) /\ task \in req'[r].done)
                   => /\ req'[r].pc = "awaiting"
                      /\ req'[r].done = req[r].done \cup {task}
                      /\ \A t2 \in Tasks \ {task} :
                            HeldSection(req'[r], t2) = HeldSection(req[r], t2)
                      /\ cache' = cache
                      /\ resp' = NoResp
                      /\ OwnSection(r, task)
             /\ (req[r].pc = "awaiting" /\ req'[r].pc # "awaiting")
                => /\ req[r].done = Tasks
                   /\ resp'.endpoint = "full" /\ resp'.status = 200
                   /\ resp'.body.update_time = now
                   /\ \A task \in Tasks :
                         SectionOf(resp'.body, task) = HeldSection(req[r], task)
       /\ (\E k \in DOMAIN cache' :
              k \notin DOMAIN cache \/ cache'[k] # cache[k])
          => \E r \in Reqs : /\ req[r].pc = "awaiting" /\ req[r].done = Tasks
                             /\ req'[r].pc = "idle"
                             /\ cache'[get_cache_key(req[r].code)].report
                                    = resp'.body
       /\ \A r \in Reqs :
             (/\ Pending(r, "fundamental") /\ Pending(r, "valuation")
              /\ "valuation" \in req'[r].done)
             => \A i \in PrimaryOutcomes, o \in CallOutcomes :
                   FetchesCommute(req[r].code, i, o)]_vars

\* A report was returned whose technical fetch raised: that section is the
\* default one and the other three are complete.
C11_Witness ==
    /\ BuiltResp /\ resp.raised = {"technical"}
    /\ resp.body.technical_analysis = TechnicalAnalysis
    /\ \A task \in Tasks \ {"technical"} :
          SectionOf(resp.body, task) = FullSection(task)

\* The name that the remembered primary lookup of code holds, "?" if none.
RememberedName(lru, code) ==
    IF LruIndex(lru, code) = 0 THEN "?"
    ELSE lru[LruIndex(lru, code)].info.name

\* C12: a request starts its section fetches only after its primary lookup
\* has returned a non-empty stock name, and a fetch runs only for a call
\* that is suspended with such a name.  When the lookup raises, returns an
\* empty result or a result without a name (from the provider, or
\* remembered from an earlier request), no fetch is started, no report is
\* built or stored and the request is answered with an error.
C12_FetchesOnlyAfterName ==
    [][/\ \A r \in Reqs, q \in ValidQueries, out \in PrimaryOutcomes :
             (BeginStep(r, q) /\ Begins(r, q, out))
             => LET started == req'[r].pc = "awaiting"
                    asked == IF started THEN req'[r].called ELSE resp'.called
                    nameless ==
                        /\ EntryOf(q.code) = "none"
                        /\ RememberedName(info_cache, q.code) = ""
                IN /\ started
                      => /\ req'[r].name # ""
                         /\ req'[r].name = RememberedName(info_cache', q.code)
                         /\ req'[r].done = {}
                         /\ resp' = NoResp
                   /\ ~started => req' = req
                   /\ ((asked /\ out \in {"raise", "empty", "noname"})
                       \/ nameless)
                      => /\ ~started
                         /\ resp'.endpoint = "full"
                         /\ resp'.status \in {404, 500}
                         /\ resp'.body = NoReport
                         /\ \A k \in DOMAIN cache' :
                               k \in DOMAIN cache /\ cache'[k] = cache[k]
       /\ \A r \in Reqs :
             (req'[r].done # req[r].done /\ req'[r].pc = "awaiting")
             => req[r].pc = "awaiting" /\ req[r].name # ""
       /\ \A r \in Reqs : req[r].pc # "awaiting" => req[r].done = {}]_vars

\* A request whose primary lookup returned a result without a stock name
\* was answered 404 while the cache held reports of other codes.
C12_Witness ==
    /\ FullResp /\ resp.primary = "noname" /\ resp.status = 404
    /\ resp.body = NoReport
    /\ cache # <<>>
    /\ \A r \in Reqs : req[r] = IdleReq

\* The reading of the clock at which a sweep whose readings are apart by
\* the gaps g tests the entry of key k.
TestedAt(g, k) ==
    now + GapSum(g, 1 + CHOOSE i \in 1..Len(cache_order) : cache_order[i] = k)

\* C13, as claimed: a request that finds no cache entry newer than CACHE_TTL
\* seconds runs the sweep; more than CACHE_TTL seconds after the previous
\* sweep, the sweep deletes exactly the entries older than CACHE_TTL seconds,
\* leaves the others as they are and sets the last-sweep time to now;
\* otherwise it changes nothing.  A request answered from the cache runs no
\* sweep.
C13_Original ==
    [][\A r \in Reqs, q \in ValidQueries, out \in PrimaryOutcomes,
          g \in ClockGaps :
          get_stock_full_report(r, q, out, g)
          => IF /\ EntryOf(q.code) # "fresh"
                /\ now + g[1] - last_clear_cache > CACHE_TTL
             THEN /\ DOMAIN cache' =
                         {k \in DOMAIN cache :
                              TestedAt(g, k) - cache[k].cache_time
                                 <= CACHE_TTL}
                  /\ \A k \in DOMAIN cache' : cache'[k] = cache[k]
                  /\ last_clear_cache' = now + g[1]
             ELSE /\ cache' = cache
                  /\ last_clear_cache' = last_clear_cache]_vars

\* C14, as claimed: in a report built by a request, the section of every
\* fetch one of whose provider calls raised has no field populated.
C14_Original ==
    BuiltResp
    => \A task \in resp.raised :
          AllFieldsEmpty(SectionOf(resp.body, task), task)

\* The provider was asked for the primary lookup by the step just taken.
AskedProvider(r) ==
    IF req'[r].pc = "awaiting" THEN req'[r].primary # "notcalled"
    ELSE resp'.primary # "notcalled"

\* C15, as claimed: a full-report request for a well-formed code that ends
\* in an error adds and replaces no cache entry, and the request for the
\* same code that follows it calls the provider's primary lookup again.
C15_Original ==
    [][\A r \in Reqs, q \in ValidQueries, out \in PrimaryOutcomes :
          (BeginStep(r, q) /\ Begins(r, q, out))
          => /\ (resp'.endpoint = "full" /\ resp'.status \in {404, 500})
                => \A k \in DOMAIN cache' :
                      k \in DOMAIN cache /\ cache'[k] = cache[k]
             /\ (FullResp /\ resp.status \in {404, 500} /\ resp.code = q.code)
                => AskedProvider(r)]_vars

\* Every cache entry is kept under the key of its report's code.
KeysMatchReports(c) ==
    \A k \in DOMAIN c : get_cache_key(c[k].report.code) = k

\* Every caller that is answered 200 by the step gets a report for the code
\* it asked for, and a suspended call keeps its code and name.
OwnReport ==
    /\ \A r \in Reqs :
          (/\ req[r].pc = "idle"
           /\ IF req'[r].pc = "awaiting" THEN TRUE ELSE resp'.status = 200)
          => \A q \in ValidQueries, out \in PrimaryOutcomes :
                Begins(r, q, out)
                => /\ resp'.status = 200 => resp'.body.code = q.code
                   /\ req'[r].pc = "awaiting" => req'[r].code = q.code
    /\ \A r \in Reqs :
          /\ (req[r].pc = "awaiting" /\ req'[r].pc = "awaiting")
             => req'[r].code = req[r].code /\ req'[r].name = req[r].name
          /\ Resumes(r)
             => resp'.code = req[r].code /\ resp'.body.code = req[r].code

\* The call in slot r is the last to end of calls for the same code that
\* overlapped, and it found no cache entry for the code when it started.
LastOfOverlapping(r) ==
    /\ Resumes(r)
    /\ req[r].overlap /\ req[r].entry = "none"
    /\ \A r2 \in Reqs \ {r} : req[r2].code # req[r].code

\* C16, as claimed: under every interleaving each caller gets a report for
\* the code it asked for, every cache entry holds a report for the code of
\* its key, and when the last of overlapping calls for the same uncached
\* code has ended there is a cache entry for that code.
C16_Original ==
    [][/\ OwnReport
       /\ KeysMatchReports(cache')
       /\ \A r \in Reqs :
             LastOfOverlapping(r)
             => /\ get_cache_key(req[r].code) \in DOMAIN cache'
                /\ cache'[get_cache_key(req[r].code)].report.code
                       = req[r].code]_vars

\* C16, amended: under every interleaving each caller gets a report for the
\* code it asked for and every cache entry holds a report for the code of
\* its key.  A call that ends while the cache holds fewer than
\* MAX_CACHE_SIZE entries leaves its own report, stamped now, as the one
\* entry for its code and the other entries as they were; a call that ends
\* while the cache holds MAX_CACHE_SIZE entries leaves the cache as it was,
\* with the report of an earlier call for the code or with none.
C16_StoredLastOrNotAtAll ==
    [][/\ OwnReport
       /\ KeysMatchReports(cache')
       /\ \A r \in Reqs :
             Resumes(r)
             => LET key == get_cache_key(req[r].code)
                IN IF Cardinality(DOMAIN cache) < MAX_CACHE_SIZE
                   THEN /\ DOMAIN cache' = DOMAIN cache \cup {key}
                        /\ cache'[key] =
                               [report |-> resp'.body, cache_time |-> now']
                        /\ \A k \in DOMAIN cache \ {key} :
                              cache'[k] = cache[k]
                   ELSE cache' = cache]_vars

\* The last of two overlapping calls for the same uncached code has ended
\* after the clock moved, and its report is the cache entry for the code.
C16_Witness ==
    /\ BuiltResp /\ resp.overlap /\ resp.entry = "none"
    /\ ~SameCodeSuspended(resp.code)
    /\ ~resp.was_full
    /\ now > 0
    /\ get_cache_key(resp.code) \in DOMAIN cache
    /\ cache[get_cache_key(resp.code)] =
           [report |-> resp.body, cache_time |-> now]

====
